---- MODULE Spec2Model ----
(***************************************************************************)
(* Model of the TRF1 lookup service: the TRF1Service singleton             *)
(* (src/trf1Service.js, both deployment variants held in that file) and    *)
(* the /api/consultar route of src/server.js.                              *)
(*                                                                         *)
(* Every call runs in a call slot.  A slot executes synchronous code       *)
(* atomically and can be interleaved with the other slots only where the   *)
(* code awaits.  The outcome of every awaited browser operation is chosen  *)
(* by the environment (it resolves or it rejects).                         *)
(***************************************************************************)
EXTENDS Naturals, Integers, Sequences, FiniteSets, TLC

\* ---------------------------------------------------------------- bounds
NProcs == 2        \* call slots that may be in progress at the same time
MaxLaunch == 2     \* puppeteer.launch calls in one run
MaxFrags == 2      \* fragments concatenated into one HTML text

Procs == 1..NProcs
BrowserIds == 1..MaxLaunch

\* ------------------------------------------------------------ text model
\* A text is a sequence of one-character strings.
Upper == <<"R","E","Q","U","I","S","Ç","Ã","O","D","P","N","V","A","L","M","G","C","T","Ó">>
Lower == <<"r","e","q","u","i","s","ç","ã","o","d","p","n","v","a","l","m","g","c","t","ó">>

\* String.prototype.toLowerCase, one character
toLowerChar(c) ==
    IF \E i \in 1..Len(Upper) : Upper[i] = c
    THEN Lower[CHOOSE i \in 1..Len(Upper) : Upper[i] = c]
    ELSE c

toUpperChar(c) ==
    IF \E i \in 1..Len(Lower) : Lower[i] = c
    THEN Upper[CHOOSE i \in 1..Len(Lower) : Lower[i] = c]
    ELSE c

\* String.prototype.toLowerCase
toLowerCase(s) == [i \in 1..Len(s) |-> toLowerChar(s[i])]

toUpperCase(s) == [i \in 1..Len(s) |-> toUpperChar(s[i])]

\* String.prototype.includes
includes(s, t) ==
    \E i \in 1..(Len(s) + 1) :
        /\ i + Len(t) - 1 <= Len(s)
        /\ \A j \in 1..Len(t) : s[i + j - 1] = t[j]

\* the fixed keyword list, in the order of the source
palavrasChaveRPV ==
    << <<"R","e","q","u","i","s","i","ç","ã","o"," ","d","e"," ",
         "P","e","q","u","e","n","o"," ","V","a","l","o","r">>,
       <<"R","P","V">>,
       <<"m","i","g","r","a","ç","ã","o">>,
       <<"m","i","g","r","a","d","o">>,
       <<"p","r","e","c","a","t","ó","r","i","o">>,
       <<"r","e","q","u","i","s","i","t","o","r","i","o">> >>

\* the matching step of one loop iteration
matches(html, palavra) == includes(toLowerCase(html), toLowerCase(palavra))

\* a scan that forgets the break: the last matching keyword wins
RECURSIVE scanNoBreak(_, _, _)
scanNoBreak(html, i, acc) ==
    IF i > Len(palavrasChaveRPV) THEN acc
    ELSE IF matches(html, palavrasChaveRPV[i])
         THEN scanNoBreak(html, i + 1, [temRPV |-> TRUE, detalhesRPV |-> palavrasChaveRPV[i]])
         ELSE scanNoBreak(html, i + 1, acc)

\* for (const palavra of palavrasChaveRPV) { if (...) { ...; break; } }
\* starting at keyword i with the loop variables acc
RECURSIVE scan(_, _, _)
scan(html, i, acc) ==
    IF i > Len(palavrasChaveRPV) THEN acc
    ELSE IF matches(html, palavrasChaveRPV[i])
         THEN [temRPV |-> TRUE, detalhesRPV |-> palavrasChaveRPV[i]]
         ELSE scan(html, i + 1, acc)

\* let temRPV = false; let detalhesRPV = ""; followed by the loop
scanKeywords(html) == scan(html, 1, [temRPV |-> FALSE, detalhesRPV |-> <<>>])


\* ------------------------------------------------------- bounded inputs
\* fragments of page text: the keywords in several casings, near misses
\* (missing accent, missing cedilla, extra accent), partial keywords that
\* complete each other when concatenated, and markup
Frags ==
    { palavrasChaveRPV[1], toUpperCase(palavrasChaveRPV[1]),
      palavrasChaveRPV[2], toLowerCase(palavrasChaveRPV[2]),
      <<"M","i","g","r","a","ç","ã","o">>, toUpperCase(palavrasChaveRPV[4]),
      palavrasChaveRPV[5], toUpperCase(palavrasChaveRPV[5]),
      palavrasChaveRPV[6],
      <<"R","e","q","u","i","s","i","t","ó","r","i","o">>,
      <<"p","r","e","c","a","t","o","r","i","o">>,
      <<"R","e","q","u","i","s","i","c","a","o"," ","d","e"," ",
        "P","e","q","u","e","n","o"," ","V","a","l","o","r">>,
      <<"m","i","g","r","a">>, <<"d","o">>,
      <<"R","P">>, <<"v",">">>,
      <<"<","t","d",">">> }

RECURSIVE Concats(_)
Concats(n) ==
    IF n = 0 THEN { <<>> }
    ELSE Concats(n - 1) \cup { h \o f : h \in Concats(n - 1), f \in Frags }

\* the HTML texts the keyword scan is checked on
Htmls == Concats(MaxFrags)

\* the HTML texts page.content() delivers in the service model
HtmlSamples ==
    { <<"<","t","d",">">>,
      <<"<","t","d",">">> \o toUpperCase(palavrasChaveRPV[5]),
      palavrasChaveRPV[4] \o <<" ">> \o palavrasChaveRPV[2] }

\* request fields: FieldAbsent is a field that is not sent (undefined),
\* FieldEmpty the empty string, a greater number a non-empty string
FieldAbsent == -1
FieldEmpty == 0
FieldNames == {"secao", "proc", "uf"}
FullRequest == [f \in FieldNames |-> 1]
Requests ==
    {FullRequest} \cup
    { [FullRequest EXCEPT ![f] = v] : f \in FieldNames, v \in {FieldAbsent, FieldEmpty} }

\* the URL a slot queries: every slot asks for a process number of its own
Url(p) == p

\* error messages: the rejection of each browser operation, the TypeError
\* of a call on a null handle, and the error consultarProcesso creates
Rejection(op) == "rejected: " \o op
TypeErrorNull == "Cannot read properties of null"
FalhaPagina == "Falha ao inicializar a página"

\* ---------------------------------------------------------------- state
VARIABLES
    variant,         \* which of the two TRF1Service classes is deployed
    browser,         \* this.browser: 0 is null, else the browser object
    page,            \* this.page: 0 is null, else the page object
    isInitializing,  \* this.isInitializing
    live,            \* browser processes launched and not shut down
    launchCalls,     \* number of puppeteer.launch calls made so far
    loaded,          \* per page object: the URL of the document it shows
    closeCalled,     \* history: close() has been called
    initFailed,      \* history: an initialize() call has thrown
    pc,              \* per slot: the await the slot is suspended at
    frames,          \* per slot: the call stack, outermost first
    obj,             \* per slot: the object the awaited operation runs on
    ret,             \* per slot: the outcome of the awaited inner call
    atSignal,        \* per slot: history, the browser processes that ran
                     \* when the SIGINT handled by the slot arrived
    exited,          \* process.exit has been called
    solo,            \* history: the calls in progress never overlapped
    ev               \* what the last step did

vars == <<variant, browser, page, isInitializing, live, launchCalls, loaded,
          closeCalled, initFailed, pc, frames, obj, ret, atSignal, exited, solo, ev>>

NoRes == [none |-> TRUE]
NoRet == [from |-> "none", threw |-> FALSE, err |-> "", res |-> NoRes]
Returned(f, r) == [from |-> f, threw |-> FALSE, err |-> "", res |-> r]
Threw(f, e) == [from |-> f, threw |-> TRUE, err |-> e, res |-> NoRes]

\* the event record of a step
\*   entry: the call that the step started ("" for a continuation)
\*   kind: the statement of the service at which the step ended
\*   cause: the error raised in the step, err: the error a function threw
\*   missing: the request of the step lacks a field
\*   status, body: the HTTP response sent in the step (status 0: none)
\*   shutdown: the browser whose shutdown the step requested or completed
\*   html, from, asked: the text read, the URL its document was loaded
\*   from, and the URL the reading call asked for
\*   open: at process.exit, the browser processes that ran when the signal
\*   arrived
EvNone ==
    [entry |-> "", kind |-> "", cause |-> "", err |-> "", threw |-> FALSE,
     res |-> NoRes, missing |-> FALSE, status |-> 0, body |-> NoRes,
     shutdown |-> 0, gotHtml |-> FALSE, html |-> <<>>, from |-> 0, asked |-> 0,
     open |-> {}]

Init ==
    /\ variant \in {"base", "vercel"}
    /\ browser = 0
    /\ page = 0
    /\ isInitializing = FALSE
    /\ live = {}
    /\ launchCalls = 0
    /\ loaded = [b \in BrowserIds |-> 0]
    /\ closeCalled = FALSE
    /\ initFailed = FALSE
    /\ pc = [p \in Procs |-> "idle"]
    /\ frames = [p \in Procs |-> <<>>]
    /\ obj = [p \in Procs |-> 0]
    /\ ret = [p \in Procs |-> NoRet]
    /\ atSignal = [p \in Procs |-> {}]
    /\ exited = FALSE
    /\ solo = TRUE
    /\ ev = EvNone

\* the state one slot works on: the session and the slot's own locals
Cur(p) ==
    [variant |-> variant, browser |-> browser, page |-> page,
     isInitializing |-> isInitializing, live |-> live,
     launchCalls |-> launchCalls, loaded |-> loaded,
     closeCalled |-> closeCalled, initFailed |-> initFailed,
     pc |-> pc[p], frames |-> frames[p], obj |-> obj[p], url |-> Url(p),
     ret |-> ret[p], atSignal |-> atSignal[p], exited |-> exited, ev |-> EvNone]

Apply(p, n) ==
    /\ ~exited
    /\ n.launchCalls <= MaxLaunch
    /\ browser' = n.browser
    /\ page' = n.page
    /\ isInitializing' = n.isInitializing
    /\ live' = n.live
    /\ launchCalls' = n.launchCalls
    /\ loaded' = n.loaded
    /\ closeCalled' = n.closeCalled
    /\ initFailed' = n.initFailed
    /\ pc' = [pc EXCEPT ![p] = n.pc]
    /\ frames' = [frames EXCEPT ![p] = n.frames]
    /\ obj' = [obj EXCEPT ![p] = n.obj]
    /\ ret' = [ret EXCEPT ![p] = n.ret]
    /\ atSignal' = [atSignal EXCEPT ![p] = n.atSignal]
    /\ exited' = n.exited
    /\ solo' = IF \A q \in Procs : pc[q] = "idle" THEN TRUE
               ELSE solo /\ \A q \in Procs \ {p} : pc[q] = "idle"
    /\ ev' = n.ev
    /\ UNCHANGED variant

Push(s, f) == [s EXCEPT !.frames = Append(@, f)]

\* the function on top of the stack finishes with outcome o: a call made
\* from outside ends, an inner call hands o to its caller
Return(s, o) ==
    IF Len(s.frames) = 1
    THEN [s EXCEPT !.frames = <<>>, !.pc = "idle", !.obj = 0, !.ret = NoRet,
                   !.atSignal = {}]
    ELSE [s EXCEPT !.frames = SubSeq(@, 1, Len(@) - 1), !.pc = "await", !.obj = 0,
                   !.ret = o]

\* ----------------------------------------------------------- TRF1Service
\* isReady()
isReady(s) == s.browser # 0 /\ s.page # 0

\* an error is raised at its point of origin
Raise(s, e) == [s EXCEPT !.ev.cause = e]

\* initialize(): the catch block without the reset of the handles
initializeCatchNoReset(s, error) ==
    Return([s EXCEPT !.isInitializing = FALSE, !.initFailed = TRUE,
                     !.ev.kind = "initialize.throw", !.ev.err = error,
                     !.ev.threw = TRUE],
           Threw("initialize", error))

\* initialize(): a failure path that leaves without the finally block
initializeCatchKeepFlag(s, error) ==
    Return([s EXCEPT !.browser = 0, !.page = 0, !.initFailed = TRUE,
                     !.ev.kind = "initialize.throw", !.ev.err = error,
                     !.ev.threw = TRUE],
           Threw("initialize", error))

\* initialize(): catch (error) { reset; throw error } finally { flag = false }
initializeCatch(s, error) ==
    Return([s EXCEPT !.browser = 0, !.page = 0, !.isInitializing = FALSE,
                     !.initFailed = TRUE,
                     !.ev.kind = "initialize.throw", !.ev.err = error,
                     !.ev.threw = TRUE],
           Threw("initialize", error))

\* initialize(): the end of the try block, then finally { flag = false }
initializeDone(s) ==
    Return([s EXCEPT !.isInitializing = FALSE, !.ev.kind = "initialize.ok"],
           Returned("initialize", NoRes))

\* initialize() with a guard that tests the handle only
initializeEntryNoFlag(s) ==
    IF s.browser # 0
    THEN Return([s EXCEPT !.ev.kind = "initialize.skip"], Returned("initialize", NoRes))
    ELSE [s EXCEPT !.isInitializing = TRUE, !.launchCalls = @ + 1, !.pc = "launch",
                   !.obj = 0, !.ev.kind = "initialize.launch"]

\* initialize(): the guard, the flag, and the call of puppeteer.launch
initializeEntry(s) ==
    IF s.browser # 0 \/ s.isInitializing
    THEN Return([s EXCEPT !.ev.kind = "initialize.skip"], Returned("initialize", NoRes))
    ELSE [s EXCEPT !.isInitializing = TRUE, !.launchCalls = @ + 1, !.pc = "launch",
                   !.obj = 0, !.ev.kind = "initialize.launch"]

\* this.browser = <launched>; this.browser.newPage() is called
initializeLaunched(s) ==
    [s EXCEPT !.browser = s.launchCalls, !.live = @ \cup {s.launchCalls},
              !.pc = "newPage", !.obj = s.launchCalls, !.ev.kind = "initialize.newPage"]

\* this.page = <new page>; this.page.setUserAgent(...) is called
initializePaged(s) ==
    [s EXCEPT !.page = s.obj, !.loaded[s.obj] = 0,
              !.pc = "setUserAgent", !.ev.kind = "initialize.setUserAgent"]

\* a further configuration call on this.page (Vercel variant)
initializeConfigure(s, step) ==
    IF s.page = 0
    THEN initializeCatch(Raise(s, TypeErrorNull), TypeErrorNull)
    ELSE [s EXCEPT !.pc = step, !.obj = s.page, !.ev.kind = "initialize." \o step]

\* after setUserAgent has resolved
initializeAgentSet(s) ==
    IF s.variant = "base" THEN initializeDone(s)
    ELSE initializeConfigure(s, "setViewport")

\* after setRequestInterception has resolved: this.page.on("request", ...)
initializeIntercepting(s) ==
    IF s.page = 0
    THEN initializeCatch(Raise(s, TypeErrorNull), TypeErrorNull)
    ELSE initializeDone(s)

\* close() that shuts the browser down and keeps both handles
closeDoneKeepHandles(s) ==
    Return([s EXCEPT !.live = @ \ {s.obj}, !.loaded[s.obj] = 0,
                     !.ev.kind = "close.done", !.ev.shutdown = s.obj],
           Returned("close", NoRes))

\* close() that clears the browser handle only
closeDoneKeepPage(s) ==
    Return([s EXCEPT !.live = @ \ {s.obj}, !.browser = 0, !.loaded[s.obj] = 0,
                     !.ev.kind = "close.done", !.ev.shutdown = s.obj],
           Returned("close", NoRes))

\* close(): after browser.close() has resolved; the process is gone
closeDone(s) ==
    Return([s EXCEPT !.live = @ \ {s.obj}, !.browser = 0, !.page = 0,
                     !.loaded[s.obj] = 0,
                     !.ev.kind = "close.done", !.ev.shutdown = s.obj],
           Returned("close", NoRes))

\* close(): if (this.browser) { await this.browser.close(); ...
closeEntry(s) ==
    IF s.browser # 0
    THEN [s EXCEPT !.pc = "closing", !.obj = s.browser, !.closeCalled = TRUE,
                   !.ev.kind = "close.request", !.ev.shutdown = s.browser]
    ELSE Return([s EXCEPT !.closeCalled = TRUE, !.ev.kind = "close.noop"],
                Returned("close", NoRes))

\* -------------------------------------------------------------- server.js
\* the response of a route ends the route
respond(s, status, body) ==
    Return([s EXCEPT !.ev.status = status, !.ev.body = body], Returned("route", NoRes))

\* the catch block of the /api/consultar routes
consultarRouteCatch(s, error) ==
    respond(s, 500, [sucesso |-> FALSE,
                     mensagem |-> <<"Erro durante a consulta: ", error>>])

\* const resultado = await trf1Service.consultarProcesso(...); res.json(resultado)
consultarRouteAnswered(s) ==
    IF s.ret.threw THEN consultarRouteCatch(s, s.ret.err)
    ELSE respond(s, 200, s.ret.res)

\* consultarProcesso hands its outcome to the route that awaits it
Deliver(s) == IF s.pc = "await" THEN consultarRouteAnswered(s) ELSE s

\* --------------------------------------------- TRF1Service.consultarProcesso
\* a result that reports failure when no keyword matched
resultadoFoundOnly(html) ==
    LET m == scanKeywords(html) IN
    IF m.temRPV
    THEN [sucesso |-> TRUE, mensagem |-> <<"RPV encontrada: ", m.detalhesRPV>>,
          temRPV |-> TRUE, detalhes |-> m.detalhesRPV]
    ELSE [sucesso |-> FALSE,
          mensagem |-> <<"Página carregada, mas RPV não foi encontrada">>]

\* the result object of a successful query
resultado(html) ==
    LET m == scanKeywords(html) IN
    [sucesso |-> TRUE,
     mensagem |-> IF m.temRPV THEN <<"RPV encontrada: ", m.detalhesRPV>>
                  ELSE <<"Página carregada, mas RPV não foi encontrada">>,
     temRPV |-> m.temRPV,
     detalhes |-> m.detalhesRPV]

\* a catch block that lets the error escape
consultarCatchRethrow(s, error) ==
    Deliver(Return([s EXCEPT !.ev.kind = "consultar.throw", !.ev.err = error,
                             !.ev.threw = TRUE],
                   Threw("consultarProcesso", error)))

\* consultarProcesso(): catch (error) { return { sucesso: false, ... } }
consultarCatch(s, error) ==
    LET r == [sucesso |-> FALSE,
              mensagem |-> <<"Erro durante a consulta: ", error>>] IN
    Deliver(Return([s EXCEPT !.ev.kind = "consultar.return", !.ev.res = r],
                   Returned("consultarProcesso", r)))

\* a query that rejects the HTML of a document it did not ask for
consultarFoundOwnOnly(s, html) ==
    IF s.loaded[s.obj] # s.url
    THEN Deliver(Return([s EXCEPT !.ev.kind = "consultar.return",
                                  !.ev.cause = "document of another query",
                                  !.ev.res = [sucesso |-> FALSE,
                                              mensagem |-> <<"Erro durante a consulta: ",
                                                             "document of another query">>]],
                        Returned("consultarProcesso",
                                 [sucesso |-> FALSE,
                                  mensagem |-> <<"Erro durante a consulta: ",
                                                 "document of another query">>])))
    ELSE LET r == resultado(html) IN
         Deliver(Return([s EXCEPT !.ev.kind = "consultar.return", !.ev.res = r,
                                  !.ev.gotHtml = TRUE, !.ev.html = html,
                                  !.ev.from = s.loaded[s.obj], !.ev.asked = s.url],
                        Returned("consultarProcesso", r)))

\* consultarProcesso(): the HTML was read; scan it and return the result
consultarFound(s, html) ==
    LET r == resultado(html) IN
    Deliver(Return([s EXCEPT !.ev.kind = "consultar.return", !.ev.res = r,
                             !.ev.gotHtml = TRUE, !.ev.html = html,
                             !.ev.from = s.loaded[s.obj], !.ev.asked = s.url],
                   Returned("consultarProcesso", r)))

\* const html = await this.page.content(): the call
consultarContent(s) ==
    IF s.page = 0
    THEN consultarCatch(Raise(s, TypeErrorNull), TypeErrorNull)
    ELSE [s EXCEPT !.pc = "content", !.obj = s.page, !.ev.kind = "consultar.content"]

\* after page.goto has resolved: the document of the URL is loaded
consultarNavigated(s) ==
    LET t == [s EXCEPT !.loaded[s.obj] = s.url] IN
    IF s.variant = "base" THEN consultarContent(t)
    ELSE IF t.page = 0
         THEN consultarContent(t)   \* the inner try swallows the TypeError
         ELSE [t EXCEPT !.pc = "waitForSelector", !.obj = t.page,
                        !.ev.kind = "consultar.waitForSelector"]

\* a navigation that does not test the page handle first
consultarNavigateUnchecked(s) ==
    [s EXCEPT !.pc = "goto", !.obj = s.page, !.ev.kind = "consultar.goto"]

\* if (!this.page) throw ...; await this.page.goto(url, ...): the call
consultarNavigate(s) ==
    IF s.page = 0
    THEN consultarCatch(Raise(s, FalhaPagina), FalhaPagina)
    ELSE [s EXCEPT !.pc = "goto", !.obj = s.page, !.ev.kind = "consultar.goto"]

\* consultarProcesso(): if (!this.browser || !this.page) await this.initialize()
consultarEntry(s) ==
    IF s.browser = 0 \/ s.page = 0
    THEN initializeEntry(Push(s, "initialize"))
    ELSE consultarNavigate(s)

\* consultarProcesso(): after the awaited initialize() has settled
consultarInitialized(s) ==
    IF s.ret.threw THEN consultarCatch(Raise(s, s.ret.err), s.ret.err)
    ELSE consultarNavigate(s)

\* ------------------------------------------------- server.js, /api/consultar
\* the validation with the test of uf left out
missingFieldNoUf(req) == req.secao <= 0 \/ req.proc <= 0

\* !secao || !proc || !uf
missingField(req) == req.secao <= 0 \/ req.proc <= 0 \/ req.uf <= 0

\* the /api/consultar routes up to their first await
consultarRoute(s, req) ==
    IF missingField(req)
    THEN respond(s, 400, [sucesso |-> FALSE,
                          mensagem |-> <<"Parâmetros obrigatórios: secao, proc, uf">>])
    ELSE IF ~isReady(s) THEN initializeEntry(Push(s, "initialize"))
         ELSE consultarEntry(Push(s, "consultarProcesso"))

\* a route without a catch block: the rejection of initialize() escapes
consultarRouteInitializedNoCatch(s) ==
    IF s.ret.threw
    THEN Return([s EXCEPT !.ev.kind = "unhandledRejection", !.ev.err = s.ret.err,
                          !.ev.threw = TRUE],
                Threw("route", s.ret.err))
    ELSE consultarEntry(Push(s, "consultarProcesso"))

\* the /api/consultar routes after their awaited initialize() has settled
consultarRouteInitialized(s) ==
    IF s.ret.threw THEN consultarRouteCatch(s, s.ret.err)
    ELSE consultarEntry(Push(s, "consultarProcesso"))

\* ------------------------------------------------ server.js, other handlers
\* POST /api/inicializar after its awaited initialize() has settled
inicializarRouteInitialized(s) ==
    IF s.ret.threw
    THEN respond([s EXCEPT !.ev.kind = "inicializar.response"], 500,
                 [sucesso |-> FALSE,
                  mensagem |-> <<"Erro ao inicializar: ", s.ret.err>>])
    ELSE respond([s EXCEPT !.ev.kind = "inicializar.response"], 200,
                 [sucesso |-> TRUE,
                  mensagem |-> <<"Serviço inicializado com sucesso">>])

\* POST /api/inicializar up to its await
inicializarRoute(s) == initializeEntry(Push(s, "initialize"))

\* the SIGINT handler up to its await: trf1Service.close() is called
sigintHandler(s) == closeEntry(Push(s, "close"))

\* the SIGINT handler after its awaited close() has settled: process.exit(0)
sigintHandlerClosed(s) ==
    Return([s EXCEPT !.exited = TRUE, !.ev.kind = "process.exit",
                     !.ev.open = s.atSignal],
           Returned("SIGINT", NoRes))

\* ---------------------------------------------------------------- actions
\* a call starts in a free slot
Start(p, name) == [Cur(p) EXCEPT !.ev.entry = name, !.frames = <<name>>]

CallInitialize(p) ==
    /\ pc[p] = "idle"
    /\ Apply(p, initializeEntry(Start(p, "initialize")))

CallConsultarProcesso(p) ==
    /\ pc[p] = "idle"
    /\ Apply(p, consultarEntry(Start(p, "consultarProcesso")))

CallClose(p) ==
    /\ pc[p] = "idle"
    /\ Apply(p, closeEntry(Start(p, "close")))

\* POST /api/consultar (fields of the body) and GET /api/consultar (fields
\* of the query string)
Request(p, method, req) ==
    /\ pc[p] = "idle"
    /\ Apply(p, consultarRoute(
                  [Start(p, "route") EXCEPT
                      !.ev.entry = method,
                      !.ev.missing = \E f \in FieldNames :
                                         req[f] \in {FieldAbsent, FieldEmpty}],
                  req))

\* POST /api/inicializar
RequestInicializar(p) ==
    /\ pc[p] = "idle"
    /\ Apply(p, inicializarRoute(
                  [Start(p, "inicializar") EXCEPT !.ev.entry = "POST /api/inicializar"]))

\* SIGINT is delivered to the process
Sigint(p) ==
    /\ pc[p] = "idle"
    /\ Apply(p, sigintHandler([Start(p, "SIGINT") EXCEPT !.atSignal = live]))

\* puppeteer.launch settles
LaunchSettles(p) ==
    /\ pc[p] = "launch"
    /\ \/ Apply(p, initializeLaunched(Cur(p)))
       \/ LET e == Rejection("launch") IN
          Apply(p, initializeCatch(Raise(Cur(p), e), e))

\* browser.newPage settles; it resolves only in a browser that still runs
NewPageSettles(p) ==
    /\ pc[p] = "newPage"
    /\ \/ obj[p] \in live /\ Apply(p, initializePaged(Cur(p)))
       \/ LET e == Rejection("newPage") IN
          Apply(p, initializeCatch(Raise(Cur(p), e), e))

\* page.setUserAgent settles
SetUserAgentSettles(p) ==
    /\ pc[p] = "setUserAgent"
    /\ \/ obj[p] \in live /\ Apply(p, initializeAgentSet(Cur(p)))
       \/ LET e == Rejection("setUserAgent") IN
          Apply(p, initializeCatch(Raise(Cur(p), e), e))

\* page.setViewport settles (Vercel variant)
SetViewportSettles(p) ==
    /\ pc[p] = "setViewport"
    /\ \/ obj[p] \in live
          /\ Apply(p, initializeConfigure(Cur(p), "setRequestInterception"))
       \/ LET e == Rejection("setViewport") IN
          Apply(p, initializeCatch(Raise(Cur(p), e), e))

\* page.setRequestInterception settles (Vercel variant)
SetRequestInterceptionSettles(p) ==
    /\ pc[p] = "setRequestInterception"
    /\ \/ obj[p] \in live /\ Apply(p, initializeIntercepting(Cur(p)))
       \/ LET e == Rejection("setRequestInterception") IN
          Apply(p, initializeCatch(Raise(Cur(p), e), e))

\* consultarProcesso resumes after its await of initialize()
ConsultarResumes(p) ==
    /\ pc[p] = "await"
    /\ frames[p][Len(frames[p])] = "consultarProcesso"
    /\ Apply(p, consultarInitialized(Cur(p)))

\* page.goto settles
GotoSettles(p) ==
    /\ pc[p] = "goto"
    /\ \/ obj[p] \in live /\ Apply(p, consultarNavigated(Cur(p)))
       \/ LET e == Rejection("goto") IN
          Apply(p, consultarCatch(Raise(Cur(p), e), e))

\* page.waitForSelector settles (Vercel variant); its rejection is swallowed
WaitForSelectorSettles(p) ==
    /\ pc[p] = "waitForSelector"
    /\ Apply(p, consultarContent(Cur(p)))

\* page.content settles
ContentSettles(p) ==
    /\ pc[p] = "content"
    /\ \/ obj[p] \in live /\ \E h \in HtmlSamples : Apply(p, consultarFound(Cur(p), h))
       \/ LET e == Rejection("content") IN
          Apply(p, consultarCatch(Raise(Cur(p), e), e))

\* browser.close settles: the browser process has been shut down
CloseSettles(p) ==
    /\ pc[p] = "closing"
    /\ Apply(p, closeDone(Cur(p)))

\* a /api/consultar route resumes after its await of initialize()
RouteResumes(p) ==
    /\ pc[p] = "await"
    /\ frames[p][Len(frames[p])] = "route"
    /\ Apply(p, consultarRouteInitialized(Cur(p)))

\* POST /api/inicializar resumes after its await of initialize()
InicializarResumes(p) ==
    /\ pc[p] = "await"
    /\ frames[p][Len(frames[p])] = "inicializar"
    /\ Apply(p, inicializarRouteInitialized(Cur(p)))

\* the SIGINT handler resumes after its await of close()
SigintResumes(p) ==
    /\ pc[p] = "await"
    /\ frames[p][Len(frames[p])] = "SIGINT"
    /\ Apply(p, sigintHandlerClosed(Cur(p)))

Next ==
    \E p \in Procs :
        \/ CallInitialize(p)
        \/ CallConsultarProcesso(p)
        \/ CallClose(p)
        \/ \E m \in {"POST", "GET"}, req \in Requests : Request(p, m, req)
        \/ LaunchSettles(p)
        \/ NewPageSettles(p)
        \/ SetUserAgentSettles(p)
        \/ SetViewportSettles(p)
        \/ SetRequestInterceptionSettles(p)
        \/ ConsultarResumes(p)
        \/ GotoSettles(p)
        \/ WaitForSelectorSettles(p)
        \/ ContentSettles(p)
        \/ CloseSettles(p)
        \/ RouteResumes(p)
        \/ RequestInicializar(p)
        \/ InicializarResumes(p)
        \/ Sigint(p)
        \/ SigintResumes(p)

Spec == Init /\ [][Next]_vars


\* A second specification for the keyword scan: a query of slot 1 is
\* suspended at page.content() in a ready session, and the read delivers
\* any of the texts of Htmls.
InitScan ==
    /\ variant \in {"base", "vercel"}
    /\ browser = 1
    /\ page = 1
    /\ isInitializing = FALSE
    /\ live = {1}
    /\ launchCalls = 1
    /\ loaded = [b \in BrowserIds |-> IF b = 1 THEN Url(1) ELSE 0]
    /\ closeCalled = FALSE
    /\ initFailed = FALSE
    /\ pc = [p \in Procs |-> IF p = 1 THEN "content" ELSE "idle"]
    /\ frames = [p \in Procs |-> IF p = 1 THEN <<"consultarProcesso">> ELSE <<>>]
    /\ obj = [p \in Procs |-> IF p = 1 THEN 1 ELSE 0]
    /\ ret = [p \in Procs |-> NoRet]
    /\ atSignal = [p \in Procs |-> {}]
    /\ exited = FALSE
    /\ solo = TRUE
    /\ ev = [EvNone EXCEPT !.kind = "consultar.content"]

ContentRead(h) ==
    /\ pc[1] = "content"
    /\ Apply(1, consultarFound(Cur(1), h))

NextScan == \E h \in Htmls : ContentRead(h)

SpecScan == InitScan /\ [][NextScan]_vars

\* ================================================================ claims
Untouched == UNCHANGED <<browser, page, isInitializing, live, launchCalls, loaded,
                         pc, frames, obj, ret, exited>>
InitializeEvents ==
    {"initialize.skip", "initialize.launch", "initialize.newPage",
     "initialize.setUserAgent", "initialize.setViewport",
     "initialize.setRequestInterception", "initialize.ok", "initialize.throw"}

\* C1: as long as no initialize() has failed and no close() has been called,
\* any number of initialize() calls, one after the other or overlapping,
\* make exactly one puppeteer.launch call in total.
C1_OneLaunch ==
    (~closeCalled /\ ~initFailed) =>
        /\ launchCalls <= 1
        /\ (ev.kind \in InitializeEvents => launchCalls = 1)

\* a second initialize() returns at once while the first one awaits launch
C1_Witness ==
    /\ ev.entry = "initialize" /\ ev.kind = "initialize.skip"
    /\ isInitializing /\ browser = 0 /\ launchCalls = 1
    /\ ~closeCalled /\ ~initFailed

\* C2: at most one browser process that was launched and not shut down
\* exists in every reachable state.
C2_AtMostOneBrowser == Cardinality(live) <= 1

\* C3: a non-null page handle implies a non-null browser handle.
C3_PageImpliesBrowser == page # 0 => browser # 0

\* C4: isReady() is false before any initialize() call, after every
\* completed close() and after an initialization that failed, and it is
\* never true while an initialization is in progress.
C4_ReadyOnlyWhenInitialized ==
    /\ launchCalls = 0 => ~(browser # 0 /\ page # 0)
    /\ ev.kind \in {"close.done", "initialize.throw"} => ~(browser # 0 /\ page # 0)
    /\ (browser # 0 /\ page # 0) => ~isInitializing

\* C5: consultarProcesso() never throws; when an error was raised in it
\* (a null page handle, a failed initialization, a rejected navigation or
\* content read) it returns sucesso=false with a mensagem that contains
\* the message of that error.
C5_NeverThrows ==
    /\ ev.kind # "consultar.throw"
    /\ (ev.kind = "consultar.return" /\ ev.cause # "") =>
          /\ ev.res.sucesso = FALSE
          /\ \E i \in 1..Len(ev.res.mensagem) : ev.res.mensagem[i] = ev.cause

\* close() cleared the page handle between the await points of a query
C5_Witness ==
    /\ ev.kind = "consultar.return" /\ ev.cause = TypeErrorNull
    /\ ev.res.sucesso = FALSE

\* the keyword occurs in the text as a case-insensitive substring
Occurs(html, palavra) ==
    \E i \in 1..Len(html) :
        /\ i + Len(palavra) - 1 <= Len(html)
        /\ \A j \in 1..Len(palavra) :
              toLowerChar(html[i + j - 1]) = toLowerChar(palavra[j])

\* the first keyword of the list that occurs, the empty text if none does
FirstKeyword(html) ==
    LET hits == { i \in 1..Len(palavrasChaveRPV) : Occurs(html, palavrasChaveRPV[i]) } IN
    IF hits = {} THEN <<>>
    ELSE palavrasChaveRPV[CHOOSE i \in hits : \A k \in hits : i <= k]

\* C6: detalhes is the first keyword, in the order of the list, that occurs
\* in the HTML text as a case-insensitive substring, and the empty text if
\* none occurs; temRPV is true exactly when detalhes is not empty.
C6_FirstKeyword ==
    ev.gotHtml =>
        /\ ev.res.detalhes = FirstKeyword(ev.html)
        /\ ev.res.temRPV <=> (ev.res.detalhes # <<>>)

\* a text in which two keywords occur; the earlier one of the list is reported
C6_Witness ==
    /\ ev.gotHtml
    /\ Occurs(ev.html, palavrasChaveRPV[2]) /\ Occurs(ev.html, palavrasChaveRPV[4])
    /\ ~Occurs(ev.html, palavrasChaveRPV[1])
    /\ ev.res.detalhes = palavrasChaveRPV[2]

\* C7: once the HTML was obtained the result has sucesso=true, also when
\* no keyword matched (then temRPV=false and detalhes=""); temRPV and
\* detalhes are fields of the result exactly when sucesso is true.
C7_ResultShape ==
    ev.kind = "consultar.return" =>
        /\ ev.gotHtml => ev.res.sucesso
        /\ (ev.gotHtml /\ FirstKeyword(ev.html) = <<>>) =>
              ("temRPV" \in DOMAIN ev.res /\ ev.res.temRPV = FALSE
               /\ "detalhes" \in DOMAIN ev.res /\ ev.res.detalhes = <<>>)
        /\ ("temRPV" \in DOMAIN ev.res) <=> ev.res.sucesso
        /\ ("detalhes" \in DOMAIN ev.res) <=> ev.res.sucesso

\* the HTML was read and no keyword matched
C7_Witness ==
    /\ ev.kind = "consultar.return" /\ ev.gotHtml
    /\ ev.res.sucesso /\ ~ev.res.temRPV

\* C8: a /api/consultar request that lacks secao, proc or uf is answered
\* with status 400 in the step that receives it, and that step leaves the
\* handles, the flag, the browser processes, the launch count, the loaded
\* documents and every call slot as they were.
C8_RejectedUntouched ==
    [][ev'.missing => (ev'.status = 400 /\ ev'.entry \in {"POST", "GET"} /\ Untouched)]_vars

\* a request without a field arrives while the session is being initialized
C8_Witness ==
    /\ ev.missing /\ ev.status = 400
    /\ isInitializing /\ browser # 0

\* C9: when a step of initialize() fails, the call ends with both handles
\* null and throws the error of the failed step.
C9_FailureResets ==
    ev.kind = "initialize.throw" =>
        /\ browser = 0 /\ page = 0
        /\ ev.threw /\ ev.cause # "" /\ ev.err = ev.cause

\* the last configuration step failed after both handles had been set
C9_Witness ==
    /\ ev.kind = "initialize.throw"
    /\ ev.cause \in {Rejection("setUserAgent"), Rejection("setRequestInterception")}
    /\ browser = 0 /\ page = 0

C11_ExitAfterShutdown ==
    ev.kind = "process.exit" => ev.open \cap live = {}

\* the awaits of initialize(), between the setting of the flag and finally
InitializeAwaits ==
    {"launch", "newPage", "setUserAgent", "setViewport", "setRequestInterception"}

InInitialize(p) == pc[p] \in InitializeAwaits

\* C12: isInitializing is true exactly while one initialize() call is between
\* the setting of the flag and its finally block; at most one call is there;
\* it is false when initialize() has left on either path; an initialize()
\* that follows a failed one launches.
C12_FlagExact ==
    /\ [](isInitializing <=> \E p \in Procs : InInitialize(p))
    /\ [](Cardinality({p \in Procs : InInitialize(p)}) <= 1)
    /\ [](ev.kind \in {"initialize.ok", "initialize.throw"} => ~isInitializing)
    /\ [][(ev.kind = "initialize.throw" /\ ev'.entry = "initialize")
              => ev'.kind = "initialize.launch"]_vars

\* an initialize() that launches after an earlier one has failed
C12_Witness ==
    /\ ev.entry = "initialize" /\ ev.kind = "initialize.launch"
    /\ initFailed /\ isInitializing /\ launchCalls = 2

\* the awaits of consultarProcesso() from page.goto on
NavigationAwaits == {"goto", "waitForSelector", "content"}

AllIdle == \A q \in Procs : pc[q] = "idle"

\* C13: a consultarProcesso() called alone on a session that is not ready
\* starts initialize() and navigates only when the session is ready and no
\* initialization is running; in every interleaving page.goto is called in
\* the step that found this.page non-null, on that page, at the start of
\* the call or after its awaited initialize() returned; a call that has
\* navigated never navigates again.
C13_InitializeThenNavigate ==
    [][/\ (AllIdle /\ ~(browser # 0 /\ page # 0) /\ ev'.entry = "consultarProcesso")
              => ev'.kind = "initialize.launch"
       /\ (solo' /\ ev'.kind = "consultar.goto")
              => (browser' # 0 /\ page' # 0 /\ ~isInitializing')
       /\ \A p \in Procs :
            /\ (pc'[p] = "goto" /\ pc[p] # "goto")
                  => /\ page # 0 /\ page' = page /\ obj'[p] = page
                     /\ ev'.kind = "consultar.goto"
                     /\ \/ pc[p] = "idle"
                        \/ pc[p] = "await" /\ ret[p].from = "initialize" /\ ~ret[p].threw
            /\ (pc[p] \in NavigationAwaits /\ pc'[p] # pc[p])
                  => pc'[p] \in (NavigationAwaits \ {"goto"}) \cup {"idle"}]_vars

\* consultarProcesso() called alone on a fresh session has awaited its
\* initialize() and now navigates
C13_Witness ==
    /\ ev.kind = "consultar.goto" /\ ev.entry = "" /\ solo
    /\ \E p \in Procs : pc[p] = "goto" /\ frames[p] = <<"consultarProcesso">>
                        /\ obj[p] = page
    /\ browser # 0 /\ page # 0

\* C14: while isInitializing is set, an initialize() that starts returns in
\* the same step without launching and leaves the session as it is; a
\* consultarProcesso() that starts launches nothing, then or when it resumes;
\* when it resumes with this.page null it returns sucesso = false with the
\* message of "Falha ao inicializar a página" and does not navigate.
C14_OverlapSkips ==
    [][/\ (isInitializing /\ ev'.entry = "initialize")
              => /\ ev'.kind = "initialize.skip" /\ ~ev'.threw
                 /\ pc' = pc /\ frames' = frames
                 /\ UNCHANGED <<browser, page, isInitializing, live, launchCalls>>
       /\ (isInitializing /\ ev'.entry = "consultarProcesso")
              => /\ ev'.kind \in {"initialize.skip", "consultar.goto"}
                 /\ UNCHANGED <<browser, page, isInitializing, live, launchCalls>>
       /\ \A p \in Procs :
            (/\ pc[p] = "await" /\ pc'[p] # "await"
             /\ frames[p][Len(frames[p])] = "consultarProcesso")
              => /\ launchCalls' = launchCalls /\ live' = live
                 /\ (page = 0 /\ ~ret[p].threw)
                      => /\ ev'.kind = "consultar.return"
                         /\ ev'.res = [sucesso |-> FALSE,
                                       mensagem |-> <<"Erro durante a consulta: ",
                                                      FalhaPagina>>]
                         /\ pc'[p] = "idle"]_vars

\* a consultarProcesso() that started during another call's initialization
\* returns the failure while that initialization is still running
C14_Witness ==
    /\ ev.kind = "consultar.return" /\ ev.cause = FalhaPagina
    /\ ev.res.sucesso = FALSE
    /\ isInitializing /\ page = 0 /\ launchCalls = 1

\* C15: a call whose page.content() resolves returns sucesso = true with the
\* result of scanning the document the shared page shows at that moment,
\* whichever call navigated to it; the witness is the execution in which
\* that document is the one of the other call's URL.
C15_SharedPage ==
    [][\A p \in Procs :
          (pc[p] = "content" /\ pc'[p] # "content"
           /\ ev'.cause # Rejection("content"))
            => /\ ev'.kind = "consultar.return" /\ ev'.gotHtml
               /\ ev'.res = resultado(ev'.html) /\ ev'.res.sucesso
               /\ ev'.asked = Url(p)
               /\ ev'.from = loaded[obj[p]]]_vars

\* a call returns sucesso = true from the document of the other call's URL
C15_Witness ==
    /\ ev.kind = "consultar.return" /\ ev.gotHtml /\ ev.res.sucesso
    /\ ev.from # ev.asked
    /\ \E q \in Procs : ev.from = Url(q)

\* slot p runs a /api/consultar request
InRoute(p) == frames[p] # <<>> /\ frames[p][1] = "route"

\* C16: a /api/consultar request ends only by sending a response and ends
\* when it sends one: 400 at once exactly when a field is missing, 500 with
\* sucesso = false and the error's message exactly when the route's own
\* awaited initialize() threw, and else 200 with the object consultarProcesso
\* returned; no step of a request ends it without a response.
C16_OneResponse ==
    [][/\ (ev'.entry \in {"POST", "GET"} /\ ev'.missing)
              => /\ ev'.status = 400 /\ ev'.body.sucesso = FALSE
                 /\ pc' = pc /\ frames' = frames
       /\ (ev'.entry \in {"POST", "GET"} /\ ~ev'.missing)
              => /\ ev'.status = 0
                 /\ \E p \in Procs : pc[p] = "idle" /\ pc'[p] # "idle"
                                     /\ frames'[p][1] = "route"
       /\ \A p \in Procs :
            (InRoute(p) /\ (pc'[p] # pc[p] \/ frames'[p] # frames[p]))
              => /\ (frames'[p] = <<>>) <=> (ev'.status # 0)
                 /\ (frames'[p] = <<>>) <=> (pc'[p] = "idle")
                 /\ ev'.status \in {0, 200, 500}
                 /\ (ev'.status = 500)
                       <=> (pc[p] = "await" /\ Len(frames[p]) = 1 /\ ret[p].threw)
                 /\ (ev'.status = 500)
                       => /\ ret[p].from = "initialize"
                          /\ ev'.body = [sucesso |-> FALSE,
                                         mensagem |-> <<"Erro durante a consulta: ",
                                                        ret[p].err>>]
                 /\ (ev'.status = 200)
                       => /\ ev'.kind = "consultar.return" /\ ~ev'.threw
                          /\ ev'.body = ev'.res]_vars

\* a request whose own initialize() threw has been answered with 500
C16_Witness ==
    /\ ev.status = 500 /\ ev.body.sucesso = FALSE
    /\ ev.body.mensagem = <<"Erro durante a consulta: ", Rejection("launch")>>
    /\ initFailed /\ \A p \in Procs : ~InRoute(p)

\* C17: in the state in which an initialize() call returns without throwing
\* isReady() is true, and a POST /api/inicializar response with
\* sucesso = true is sent in a state in which isReady() is true.
C17_ReturnsReady ==
    /\ ev.kind \in {"initialize.ok", "initialize.skip"} => (browser # 0 /\ page # 0)
    /\ (ev.kind = "inicializar.response" /\ ev.status = 200)
          => (ev.body.sucesso /\ browser # 0 /\ page # 0)

\* C18: every browser process that was launched and not shut down is the one
\* this.browser refers to.
C18_NoOrphan == \A b \in live : b = browser

\* C19: when a close() has just completed and no call is in progress, an
\* initialize() or consultarProcesso() that starts launches a new browser;
\* an initialization that never overlapped another call and completes its
\* launch sequence leaves isReady() true, with the browser it launched alive.
C19_Recreate ==
    [][/\ (ev.kind = "close.done" /\ AllIdle
           /\ ev'.entry \in {"initialize", "consultarProcesso"})
              => /\ ev'.kind = "initialize.launch"
                 /\ launchCalls' = launchCalls + 1
                 /\ isInitializing'
       /\ (ev'.kind = "initialize.ok" /\ solo')
              => /\ browser' # 0 /\ page' # 0 /\ ~isInitializing'
                 /\ browser' = launchCalls' /\ browser' \in live']_vars

\* after a session was closed, a later initialization running alone has
\* completed and the session is ready with a second browser
C19_Witness ==
    /\ ev.kind = "initialize.ok" /\ solo /\ closeCalled /\ ~initFailed
    /\ launchCalls = 2 /\ browser = 2 /\ page = 2 /\ live = {2}

====
